---- MODULE Spec2Model ----
(***************************************************************************)
(* Model of the threaded escape-time renderer of src/src/main.rs:          *)
(* threaded_fractal_calc (partitioning of the rows into jobs, the thread   *)
(* pool, the result channel, the aggregation loop, the byte buffer) and    *)
(* the per-pixel escape loop, and Mandelbrot::update, the handler of the   *)
(* window and mouse events.                                                *)
(*                                                                         *)
(* Numbers.  The program computes in f32.  The model keeps every f32 as a  *)
(* fixed-point integer with Scale units per 1.0 and rounds each product    *)
(* and quotient down to a whole unit.  Window sizes are whole numbers of   *)
(* pixels.  Colour channels are kept in units of 1/255: for every n in     *)
(* 0..255 the f32 computation ((n / 255.0) * 255.0) as u8 gives n again.   *)
(*                                                                         *)
(* Sizes.  The program fixes n_jobs = 32 (line 140) and a pool of 8        *)
(* threads (line 49).  The model takes both as parameters of a run, drawn  *)
(* in Init from 1..MaxJobs and 1..MaxThreads, so that every interleaving   *)
(* of the workers and of the channel can be explored.                      *)
(*                                                                         *)
(* Specifications.  Spec runs threaded_fractal_calc step by step;          *)
(* FairSpec is Spec for rasters one pixel wide with threads that keep      *)
(* running; FaultSpec adds jobs that end without sending; LoopSpec runs    *)
(* the escape loop turn by turn; UiSpec runs update() one event at a       *)
(* time, a call of threaded_fractal_calc being one step of it.             *)
(***************************************************************************)
EXTENDS Integers, Sequences, FiniteSets, TLC

\* ------------------------------------------------------------------ bounds
MaxWidth == 2
MaxHeight == 4
MaxJobs == 3
MaxThreads == 2
MaxPlaneSide == 3
MaxMouse == 1

\* ------------------------------------------------------- program constants
\* for n in 0..255 (line 160)
MaxIterations == 255

\* fixed-point units per 1.0 (the stand-in for f32)
Scale == 2 ^ 10

VARIABLES
    pc,              \* where the caller of threaded_fractal_calc is
    bounds,          \* the bounds argument: [width, height]
    n_jobs,          \* let n_jobs (line 140)
    n_threads,       \* the size of the pool (line 49)
    overall_result,  \* the grid of colours, overall_result[x][y]
    next_job,        \* the loop variable i of the submission loop (line 145)
    jobs,            \* the closures submitted so far: [start_row, end_row]
    queue,           \* the pool's queue of submitted jobs, by index into jobs
    running,         \* the jobs a pool thread is executing
    chan,            \* the channel: batches sent and not yet received
    received,        \* the number of batches the aggregation loop has received
    writes,          \* writes[x][y]: how often the aggregation loop wrote the cell
    image,           \* Mandelbrot.image: [width, height, bytes]
    lost,            \* the jobs that ended without sending
    point,           \* the escape loop on its own: the point c of the pixel
    loop,            \* its state: z, the step n, the colour, whether it has ended
    orbit,           \* the values z took, one per turn of the loop
    last,            \* the step and shade of the pixel that escaped before this one
    current_mouse_location,  \* Mandelbrot.current_mouse_location
    draw_bounding_box,       \* Mandelbrot.draw_bounding_box
    start_location,          \* Mandelbrot.start_location
    end_location,            \* Mandelbrot.end_location
    region,                  \* Mandelbrot.region
    window_size,             \* Mandelbrot.window_size
    should_draw,             \* should_draw at the end of the last update
    event,                   \* the event the last update handled
    redrawn                  \* the last call had the bounds of the call before it
                             \* and another region

passVars == << pc, bounds, n_jobs, n_threads, overall_result, next_job, jobs, queue,
               running, chan, received, writes, image, lost >>

loopVars == << point, loop, orbit, last >>

uiVars == << current_mouse_location, draw_bounding_box, start_location, end_location,
             region, window_size, should_draw, event, redrawn >>

vars == << pc, bounds, n_jobs, n_threads, overall_result, next_job, jobs, queue,
           running, chan, received, writes, image, lost, point, loop, orbit, last,
           current_mouse_location, draw_bounding_box, start_location, end_location,
           region, window_size, should_draw, event, redrawn >>

\* ------------------------------------------------------------------ colours
\* iced::Color, each channel in units of 1/255
Color(r, g, b, a) == [r |-> r, g |-> g, b |-> b, a |-> a]

TRANSPARENT == Color(0, 0, 0, 0)

BLACK == Color(0, 0, 0, 255)

from_rgb8(r, g, b) == Color(r, g, b, 255)

\* ------------------------------------------------------------------ numbers
\* v as usize: the fraction is dropped, negative values saturate to 0
AsUsize(v) == IF v < 0 THEN 0 ELSE v \div Scale

\* n as f32
AsF32(n) == n * Scale

FMul(a, b) == (a * b) \div Scale

FDiv(a, b) == (a * Scale) \div b

\* Complex<f32>
Complex(re, im) == [re |-> re, im |-> im]

\* z * z + c (line 161)
Iterate(z, c) ==
    Complex(FMul(z.re, z.re) - FMul(z.im, z.im) + c.re,
            FMul(z.re, z.im) + FMul(z.im, z.re) + c.im)

\* z.norm() >= 2.0 (line 162), compared on the squares
Bailout(z) == z.re * z.re + z.im * z.im >= 4 * Scale * Scale

\* Shade growing with the step
ShadeAscending(n) == n

\* the shade of a pixel that escaped at step n (line 163)
Shade(n) == 255 - n

\* the state of the loop of lines 158-166 before its first turn:
\* let mut z = Complex::new(0.0, 0.0); let mut color = Color::BLACK
LoopStart == [z |-> Complex(0, 0), n |-> 0, color |-> BLACK, done |-> FALSE]

\* LoopStep testing z before it is updated
LoopStepTestFirst(s, c) ==
    IF s.done THEN s
    ELSE IF s.n >= MaxIterations THEN [s EXCEPT !.done = TRUE]
    ELSE IF Bailout(s.z)
         THEN [z |-> s.z, n |-> s.n,
               color |-> from_rgb8(Shade(s.n), Shade(s.n), Shade(s.n)),
               done |-> TRUE]
         ELSE [z |-> Iterate(s.z, c), n |-> s.n + 1, color |-> s.color, done |-> FALSE]

\* one turn of for n in 0..255 { z = z * z + c; if z.norm() >= 2.0 { color = ..; break } }
\* (lines 160-166); a loop that has ended stays as it is
LoopStep(s, c) ==
    IF s.done THEN s
    ELSE IF s.n >= MaxIterations THEN [s EXCEPT !.done = TRUE]
    ELSE LET z1 == Iterate(s.z, c)
         IN  IF Bailout(z1)
             THEN [z |-> z1, n |-> s.n,
                   color |-> from_rgb8(Shade(s.n), Shade(s.n), Shade(s.n)),
                   done |-> TRUE]
             ELSE [z |-> z1, n |-> s.n + 1, color |-> s.color, done |-> FALSE]

\* the loop ended at a step where z.norm() >= 2.0 (the break of line 164)
Escaped(s) == s.done /\ s.n < MaxIterations

\* the loop run to its end, 256 > MaxIterations turns: each operator runs k
\* further turns on a loop state h; the state after the first half of the turns
\* is the one element m of a set, so that it is evaluated once
LoopThen1(h, c) == IF h.done THEN h ELSE LoopStep(h, c)

LoopThen2(h, c) ==
    IF h.done THEN h
    ELSE CHOOSE r \in { LoopThen1(m, c) : m \in { LoopStep(h, c) } } : TRUE

LoopThen4(h, c) ==
    IF h.done THEN h
    ELSE CHOOSE r \in { LoopThen2(m, c) : m \in { LoopThen2(h, c) } } : TRUE

LoopThen8(h, c) ==
    IF h.done THEN h
    ELSE CHOOSE r \in { LoopThen4(m, c) : m \in { LoopThen4(h, c) } } : TRUE

LoopThen16(h, c) ==
    IF h.done THEN h
    ELSE CHOOSE r \in { LoopThen8(m, c) : m \in { LoopThen8(h, c) } } : TRUE

LoopThen32(h, c) ==
    IF h.done THEN h
    ELSE CHOOSE r \in { LoopThen16(m, c) : m \in { LoopThen16(h, c) } } : TRUE

LoopThen64(h, c) ==
    IF h.done THEN h
    ELSE CHOOSE r \in { LoopThen32(m, c) : m \in { LoopThen32(h, c) } } : TRUE

LoopThen128(h, c) ==
    IF h.done THEN h
    ELSE CHOOSE r \in { LoopThen64(m, c) : m \in { LoopThen64(h, c) } } : TRUE

LoopThen256(h, c) ==
    IF h.done THEN h
    ELSE CHOOSE r \in { LoopThen128(m, c) : m \in { LoopThen128(h, c) } } : TRUE

LoopRun(c) == LoopThen256(LoopStart, c)

\* the point c of pixel (x, y) (lines 151-157)
PlanePoint(b, x, y) ==
    LET x_res == FDiv(AsF32(3), AsF32(b.width))
        y_res == FDiv(AsF32(2), AsF32(b.height))
        i == (0 - Scale \div 2) - FDiv(FMul(x_res, AsF32(b.width)), AsF32(2))
               + FMul(AsF32(x), x_res)
        j == 0 - FDiv(FMul(y_res, AsF32(b.height)), AsF32(2))
               + FMul(AsF32(y), y_res)
    IN  Complex(i, j)

\* the colour a job computes for pixel (x, y) (lines 155-166); the point c is
\* the one element of a set, so that it is evaluated once
PixelColor(b, x, y) ==
    (CHOOSE s \in { LoopRun(c) : c \in { PlanePoint(b, x, y) } } : TRUE).color

\* ------------------------------------------------------------- partitioning
\* bounds.width as usize, bounds.height as usize
Width(b) == AsUsize(AsF32(b.width))

Height(b) == AsUsize(AsF32(b.height))

\* let pixel_job_height = bounds.height / n_jobs as f32 (line 142)
pixel_job_height(b, n) == FDiv(AsF32(b.height), AsF32(n))

\* StartRow one row too early for every job but the first, so that neighbouring
\* jobs share a row
StartRowOverlapping(b, n, i) ==
    IF i > 0 /\ AsUsize(pixel_job_height(b, n)) > 0
    THEN i * AsUsize(pixel_job_height(b, n)) - 1
    ELSE i * AsUsize(pixel_job_height(b, n))

\* let start_row = i * pixel_job_height as usize (line 147)
StartRow(b, n, i) == i * AsUsize(pixel_job_height(b, n))

\* let end_row = start_row + pixel_job_height as usize (line 148)
EndRow(b, n, i) == StartRow(b, n, i) + AsUsize(pixel_job_height(b, n))

\* struct Pixel
Pixel(x, y, color) == [x |-> x, y |-> y, color |-> color]

\* JobResult with one column too many: for x in 0..=width
JobResultExtraColumn(b, job) ==
    LET rows == job.end_row - job.start_row
    IN  [k \in 1..((Width(b) + 1) * rows) |->
            LET x == (k - 1) \div rows
                y == job.start_row + ((k - 1) % rows)
            IN  Pixel(x, y, BLACK)]

\* JobResult that pushes a pixel only when its point escaped
JobResultDivergentOnly(b, job) ==
    LET rows == job.end_row - job.start_row
        all == [k \in 1..(Width(b) * rows) |->
                   LET x == (k - 1) \div rows
                       y == job.start_row + ((k - 1) % rows)
                   IN  Pixel(x, y, PixelColor(b, x, y))]
        Diverged(p) == p.color # BLACK
    IN  SelectSeq(all, Diverged)

\* the Vec<Pixel> a job builds: for x in 0..width, for y in start_row..end_row
\* (lines 150-170)
JobResult(b, job) ==
    LET rows == job.end_row - job.start_row
    IN  [k \in 1..(Width(b) * rows) |->
            LET x == (k - 1) \div rows
                y == job.start_row + ((k - 1) % rows)
            IN  Pixel(x, y, PixelColor(b, x, y))]

\* ---------------------------------------------------------------- aggregation
\* overall_result as allocated by lines 131-138
NewGrid(b, v) == [x \in 0..(Width(b) - 1) |-> [y \in 0..(Height(b) - 1) |-> v]]

\* the index overall_result[pixel.x][pixel.y] is in range
InGrid(grid, p) == p.x \in DOMAIN grid /\ p.y \in DOMAIN grid[p.x]

\* for pixel in pixels { overall_result[pixel.x][pixel.y] = pixel.color } (lines 178-180)
RECURSIVE StorePixels(_, _)
StorePixels(grid, pixels) ==
    IF pixels = << >> THEN grid
    ELSE LET p == Head(pixels)
         IN  StorePixels([grid EXCEPT ![p.x][p.y] = p.color], Tail(pixels))

\* the same loop, counting the writes to each cell
RECURSIVE CountPixels(_, _)
CountPixels(count, pixels) ==
    IF pixels = << >> THEN count
    ELSE LET p == Head(pixels)
         IN  CountPixels([count EXCEPT ![p.x][p.y] = @ + 1], Tail(pixels))

\* BatchesToReceive one too few
BatchesToReceiveOneLess == n_jobs - 1

\* the number of batches the aggregation loop receives: for _ in 0..n_jobs (line 176)
BatchesToReceive == n_jobs

\* (c * 255.0) as u8 for a colour channel c
ChannelToU8(c) == IF c < 0 THEN 0 ELSE IF c > 255 THEN 255 ELSE c

\* Bytes with the columns in the outer loop
BytesColumnMajor(b, grid) ==
    [k \in 1..(Width(b) * Height(b) * 4) |->
        LET cell == (k - 1) \div 4
            i == cell \div Height(b)
            j == cell % Height(b)
            ch == (k - 1) % 4
        IN  CASE ch = 0 -> ChannelToU8(grid[i][j].r)
              [] ch = 1 -> ChannelToU8(grid[i][j].g)
              [] ch = 2 -> ChannelToU8(grid[i][j].b)
              [] OTHER -> 255]

\* the byte buffer of lines 183-192: rows outermost, four bytes per cell
Bytes(b, grid) ==
    [k \in 1..(Width(b) * Height(b) * 4) |->
        LET cell == (k - 1) \div 4
            j == cell \div Width(b)
            i == cell % Width(b)
            ch == (k - 1) % 4
        IN  CASE ch = 0 -> ChannelToU8(grid[i][j].r)
              [] ch = 1 -> ChannelToU8(grid[i][j].g)
              [] ch = 2 -> ChannelToU8(grid[i][j].b)
              [] OTHER -> 255]

\* image::Handle::from_rgba(width as u32, height as u32, bytes)
from_rgba(w, h, bytes) == [width |-> w, height |-> h, bytes |-> bytes]

\* ------------------------------------------------------------------- sizes
Sizes == [width : 0..MaxWidth, height : 0..MaxHeight]

\* the sizes a Resized event brings: the two tallest sizes one pixel wide
UiSizes == { s \in Sizes : s.width = 1 /\ s.height >= MaxHeight - 1 }

\* ---------------------------------------------------------------- front end
\* iced::Point and iced::Rectangle, their f32 fields in fixed point
Point(x, y) == [x |-> x, y |-> y]

Rectangle(x, y, width, height) == [x |-> x, y |-> y, width |-> width, height |-> height]

\* the cursor positions a CursorMoved event brings
Positions == { Point(AsF32(k), AsF32(k)) : k \in 0..MaxMouse }

Buttons == {"Left", "Right", "Middle"}

\* the events update() is called with (lines 78-101); "Other" is any event
\* that none of its four patterns matches
Events ==
    { [type |-> "Resized", size |-> s] : s \in UiSizes }
        \cup { [type |-> "CursorMoved", position |-> p] : p \in Positions }
        \cup { [type |-> "ButtonPressed", button |-> b] : b \in Buttons }
        \cup { [type |-> "ButtonReleased", button |-> b] : b \in Buttons }
        \cup { [type |-> "Other"] }

Pressed(e, button) == e.type = "ButtonPressed" /\ e.button = button

Released(e, button) == e.type = "ButtonReleased" /\ e.button = button

\* ShouldDraw set by every release of the left button
ShouldDrawAnyRelease(e, dbb) == e.type = "Resized" \/ Released(e, "Left")

\* should_draw at the end of the match of update(), for event e handled while
\* draw_bounding_box is dbb (lines 77, 83, 103, 111)
ShouldDraw(e, dbb) == e.type = "Resized" \/ (Released(e, "Left") /\ dbb)

\* overall_result after the aggregation loop has received the batches of the
\* first i jobs (lines 176-181); the order of the receives does not change
\* the grid, the jobs are taken in the order of their submission
RECURSIVE Aggregate(_, _, _)
Aggregate(b, n, i) ==
    IF i = 0 THEN NewGrid(b, TRANSPARENT)
    ELSE StorePixels(Aggregate(b, n, i - 1),
                     JobResult(b, [start_row |-> StartRow(b, n, i - 1),
                                   end_row |-> EndRow(b, n, i - 1)]))

\* FractalCalc with the plane moved by the origin of the region
FractalCalcMoved(b, n, rgn) ==
    from_rgba(Width(b), Height(b),
              Bytes(b, [x \in 0..(Width(b) - 1) |-> [y \in 0..(Height(b) - 1) |->
                          IF y < n * AsUsize(pixel_job_height(b, n))
                          THEN LoopRun(Complex(PlanePoint(b, x, y).re + rgn.x,
                                               PlanePoint(b, x, y).im + rgn.y)).color
                          ELSE TRANSPARENT]]))

\* threaded_fractal_calc(pool, bounds, region) as one step of its caller, from
\* its entry to its return (lines 130-199); the body never reads region
FractalCalc(b, n, rgn) == from_rgba(Width(b), Height(b), Bytes(b, Aggregate(b, n, n)))

\* ---------------------------------------------------------------------- Init
\* Mandelbrot::default() and a caller that has not drawn yet
PassInit ==
    /\ pc = "idle"
    /\ bounds = [width |-> 0, height |-> 0]
    /\ overall_result = << >>
    /\ next_job = 0
    /\ jobs = << >>
    /\ queue = << >>
    /\ running = {}
    /\ chan = << >>
    /\ received = 0
    /\ writes = << >>
    /\ image = from_rgba(0, 0, << >>)
    /\ lost = {}

\* the escape loop of one pixel, before its first turn
LoopInit(b, x, y) ==
    /\ point = PlanePoint(b, x, y)
    /\ loop = LoopStart
    /\ orbit = << >>
    /\ last = [seen |-> FALSE, n |-> 0, shade |-> 0]

\* Mandelbrot::default (lines 40-53); window_size is 1200 x 720 there and the
\* tallest size of UiSizes here; no update has run
UiInit ==
    /\ current_mouse_location = Point(0 - Scale \div 2, 0)
    /\ draw_bounding_box = FALSE
    /\ start_location = Point(0, 0)
    /\ end_location = Point(0, 0)
    /\ region = Rectangle(0, 0, 0, 0)
    /\ window_size = [width |-> 1, height |-> MaxHeight]
    /\ should_draw = FALSE
    /\ event = [type |-> "None"]
    /\ redrawn = FALSE

Init ==
    /\ PassInit
    /\ n_jobs \in 1..MaxJobs
    /\ n_threads \in 1..MaxThreads
    /\ LoopInit([width |-> 1, height |-> 1], 0, 0)
    /\ UiInit

\* -------------------------------------------------------------------- actions
\* update() decides to draw and calls threaded_fractal_calc(pool, size, region):
\* the grid is allocated and the channel created (lines 118-120, 130-144)
Call(size) ==
    /\ pc \in {"idle", "done"}
    /\ bounds' = size
    /\ overall_result' = NewGrid(size, TRANSPARENT)
    /\ writes' = NewGrid(size, 0)
    /\ next_job' = 0
    /\ jobs' = << >>
    /\ chan' = << >>
    /\ received' = 0
    /\ pc' = "dispatch"
    /\ UNCHANGED << n_jobs, n_threads, queue, running, image, lost,
                    point, loop, orbit, last, uiVars >>

\* Submit that starts the aggregation after the first pool.execute
SubmitThenWait ==
    /\ pc = "dispatch"
    /\ next_job < n_jobs
    /\ jobs' = Append(jobs, [start_row |-> StartRow(bounds, n_jobs, next_job),
                             end_row |-> EndRow(bounds, n_jobs, next_job)])
    /\ queue' = Append(queue, Len(jobs) + 1)
    /\ next_job' = next_job + 1
    /\ pc' = "recv"
    /\ UNCHANGED << bounds, n_jobs, n_threads, overall_result, running, chan,
                    received, writes, image, lost,
                    point, loop, orbit, last, uiVars >>

\* one turn of for i in 0..n_jobs: pool.execute(closure) (lines 145-174)
Submit ==
    /\ pc = "dispatch"
    /\ next_job < n_jobs
    /\ jobs' = Append(jobs, [start_row |-> StartRow(bounds, n_jobs, next_job),
                             end_row |-> EndRow(bounds, n_jobs, next_job)])
    /\ queue' = Append(queue, Len(jobs) + 1)
    /\ next_job' = next_job + 1
    /\ pc' = IF next_job + 1 = n_jobs THEN "recv" ELSE "dispatch"
    /\ UNCHANGED << bounds, n_jobs, n_threads, overall_result, running, chan,
                    received, writes, image, lost,
                    point, loop, orbit, last, uiVars >>

\* WorkerStart with pool threads that run one job each and then stay idle
WorkerStartNoReuse ==
    /\ queue # << >>
    /\ Len(jobs) - Len(queue) < n_threads
    /\ running' = running \cup {Head(queue)}
    /\ queue' = Tail(queue)
    /\ UNCHANGED << pc, bounds, n_jobs, n_threads, overall_result, next_job, jobs,
                    chan, received, writes, image, lost,
                    point, loop, orbit, last, uiVars >>

\* WorkerStart taking the newest queued job
WorkerStartNewest ==
    /\ queue # << >>
    /\ Cardinality(running) < n_threads
    /\ running' = running \cup {queue[Len(queue)]}
    /\ queue' = SubSeq(queue, 1, Len(queue) - 1)
    /\ UNCHANGED << pc, bounds, n_jobs, n_threads, overall_result, next_job, jobs,
                    chan, received, writes, image, lost,
                    point, loop, orbit, last, uiVars >>

\* an idle pool thread takes the oldest queued job
WorkerStart ==
    /\ queue # << >>
    /\ Cardinality(running) < n_threads
    /\ running' = running \cup {Head(queue)}
    /\ queue' = Tail(queue)
    /\ UNCHANGED << pc, bounds, n_jobs, n_threads, overall_result, next_job, jobs,
                    chan, received, writes, image, lost,
                    point, loop, orbit, last, uiVars >>

\* a job computes its pixels and sends them: tx.send(result) (lines 150-172)
WorkerFinish(j) ==
    /\ j \in running
    /\ chan' = Append(chan, JobResult(bounds, jobs[j]))
    /\ running' = running \ {j}
    /\ UNCHANGED << pc, bounds, n_jobs, n_threads, overall_result, next_job, jobs,
                    queue, received, writes, image, lost,
                    point, loop, orbit, last, uiVars >>

\* one turn of the aggregation loop: rx.recv().unwrap() blocks while the channel
\* is empty, then every pixel of the batch is stored (lines 176-181); an index
\* out of range panics
Recv ==
    /\ pc = "recv"
    /\ received < BatchesToReceive
    /\ chan # << >>
    /\ LET pixels == Head(chan)
       IN  IF \A k \in 1..Len(pixels) : InGrid(overall_result, pixels[k])
           THEN /\ overall_result' = StorePixels(overall_result, pixels)
                /\ writes' = CountPixels(writes, pixels)
                /\ received' = received + 1
                /\ pc' = pc
           ELSE /\ pc' = "panicked"
                /\ UNCHANGED << overall_result, writes, received,
                    point, loop, orbit, last, uiVars >>
    /\ chan' = Tail(chan)
    /\ UNCHANGED << bounds, n_jobs, n_threads, next_job, jobs, queue, running,
                    image, lost,
                    point, loop, orbit, last, uiVars >>

\* the loop has received its batches: the bytes are built and the handle is
\* returned and stored in self.image (lines 183-198, 120)
Return ==
    /\ pc = "recv"
    /\ received >= BatchesToReceive
    /\ image' = from_rgba(Width(bounds), Height(bounds), Bytes(bounds, overall_result))
    /\ pc' = "done"
    /\ UNCHANGED << bounds, n_jobs, n_threads, overall_result, next_job, jobs, queue,
                    running, chan, received, writes, lost,
                    point, loop, orbit, last, uiVars >>

\* a job ends without sending: its closure unwinds and its sender is dropped
TaskPanic(j) ==
    /\ j \in running
    /\ running' = running \ {j}
    /\ lost' = lost \cup {j}
    /\ UNCHANGED << pc, bounds, n_jobs, n_threads, overall_result, next_job, jobs,
                    queue, chan, received, writes, image,
                    point, loop, orbit, last, uiVars >>

Next ==
    \/ \E size \in Sizes : Call(size)
    \/ Submit
    \/ WorkerStart
    \/ \E j \in running : WorkerFinish(j)
    \/ Recv
    \/ Return

Spec == Init /\ [][Next]_vars

\* a step of the caller inside a pass or of a pool thread
PassStep ==
    \/ Submit
    \/ WorkerStart
    \/ \E j \in running : WorkerFinish(j)
    \/ Recv
    \/ Return

\* the sizes one pixel wide: the width of the raster plays no part in the
\* scheduling of the jobs
ColumnSizes == { s \in Sizes : s.width = 1 }

FairNext ==
    \/ \E size \in ColumnSizes : Call(size)
    \/ PassStep

\* the same program when its threads keep running: while the caller or a pool
\* thread has a step to take, one of them takes a step
FairSpec == Init /\ [][FairNext]_vars /\ WF_vars(PassStep)

\* the same program with jobs that may end without sending
FaultNext ==
    \/ Next
    \/ \E j \in running : TaskPanic(j)

FaultSpec == Init /\ [][FaultNext]_vars

\* ------------------------------------------------- the escape loop on its own
\* the pixels of the rasters of up to MaxPlaneSide by MaxPlaneSide cells
PlanePixels ==
    { p \in [b : [width : 1..MaxPlaneSide, height : 1..MaxPlaneSide],
             x : 0..(MaxPlaneSide - 1), y : 0..(MaxPlaneSide - 1)] :
        p.x < p.b.width /\ p.y < p.b.height }

\* a job starts on the next pixel (lines 155-159)
PixelStart(b, x, y) ==
    /\ loop.done
    /\ point' = PlanePoint(b, x, y)
    /\ loop' = LoopStart
    /\ orbit' = << >>
    /\ last' = IF Escaped(loop)
               THEN [seen |-> TRUE, n |-> loop.n, shade |-> loop.color.r]
               ELSE last
    /\ UNCHANGED passVars
    /\ UNCHANGED uiVars

\* one turn of the loop (lines 160-166)
LoopTurn ==
    /\ ~loop.done
    /\ loop' = LoopStep(loop, point)
    /\ orbit' = IF loop.n < MaxIterations THEN Append(orbit, loop'.z) ELSE orbit
    /\ UNCHANGED << point, last >>
    /\ UNCHANGED passVars
    /\ UNCHANGED uiVars

LoopSpecInit ==
    /\ PassInit
    /\ n_jobs = 1
    /\ n_threads = 1
    /\ \E p \in PlanePixels : LoopInit(p.b, p.x, p.y)
    /\ UiInit

LoopNext ==
    \/ \E p \in PlanePixels : PixelStart(p.b, p.x, p.y)
    \/ LoopTurn

LoopSpec == LoopSpecInit /\ [][LoopNext]_vars

\* ------------------------------------------------------------- the front end
\* Mandelbrot::update(message) for the event e, from its entry to its return
\* (lines 76-123), the call of threaded_fractal_calc included
Update(e) ==
    LET select == Released(e, "Left") /\ draw_bounding_box
        size == IF e.type = "Resized" THEN e.size ELSE window_size
        selected == IF select
                    THEN Rectangle(start_location.x, start_location.y,
                                   end_location.x - start_location.x,
                                   end_location.y - start_location.y)
                    ELSE region
        draw == ShouldDraw(e, draw_bounding_box)
    IN  /\ event' = e
        /\ window_size' = size
        /\ current_mouse_location' =
              IF e.type = "CursorMoved" THEN e.position ELSE current_mouse_location
        /\ end_location' = IF e.type = "CursorMoved" THEN e.position ELSE end_location
        /\ start_location' =
              IF Pressed(e, "Left")
              THEN Point(current_mouse_location.x, current_mouse_location.y)
              ELSE start_location
        /\ draw_bounding_box' =
              IF Pressed(e, "Left") THEN TRUE
              ELSE IF Pressed(e, "Right") \/ select THEN FALSE
              ELSE draw_bounding_box
        /\ region' = selected
        /\ should_draw' = draw
        /\ image' = IF draw THEN FractalCalc(size, n_jobs, selected) ELSE image
        \* every call so far was made with self.region, which only a drawing
        \* update changes: region is the region argument of the call before
        /\ redrawn' = IF draw
                      THEN /\ image.bytes # << >>
                           /\ image.width = Width(size)
                           /\ image.height = Height(size)
                           /\ region # selected
                      ELSE redrawn
        /\ UNCHANGED << pc, bounds, n_jobs, n_threads, overall_result, next_job, jobs,
                        queue, running, chan, received, writes, lost >>
        /\ UNCHANGED loopVars

UiNext == \E e \in Events : Update(e)

\* the pool plays no part in a step of update seen from its caller
UiSpecInit ==
    /\ PassInit
    /\ n_jobs \in 1..MaxJobs
    /\ n_threads = MaxThreads
    /\ LoopInit([width |-> 1, height |-> 1], 0, 0)
    /\ UiInit

UiSpec == UiSpecInit /\ [][UiNext]_vars

\* ---------------------------------------------------------------- properties
\* the cells of the raster of the current pass
Cells == { c \in (0..(Width(bounds) - 1)) \X (0..(Height(bounds) - 1)) : TRUE }

\* the rows of a job
Rows(job) == job.start_row..(job.end_row - 1)

\* every job of the pass has been submitted
AllSubmitted == pc \in {"recv", "done"}

\* C1: for width > 0 and height > 0, when threaded_fractal_calc has returned,
\* every cell of the raster has been written exactly once by the aggregation
\* loop and none still holds Color::TRANSPARENT.
C1_EveryCellWrittenOnce ==
    (pc = "done" /\ bounds.width > 0 /\ bounds.height > 0)
        => \A c \in Cells : /\ writes[c[1]][c[2]] = 1
                             /\ overall_result[c[1]][c[2]] # TRANSPARENT

\* C2: for height > 0 and a job count in 1..height, the row ranges of the
\* submitted jobs are pairwise disjoint, their union is 0..height-1, and the
\* last job ends at height.
C2_UnitsPartitionRows ==
    (AllSubmitted /\ Height(bounds) > 0 /\ n_jobs <= Height(bounds))
        => /\ \A i, k \in 1..Len(jobs) : i # k => Rows(jobs[i]) \cap Rows(jobs[k]) = {}
           /\ UNION { Rows(jobs[i]) : i \in 1..Len(jobs) } = 0..(Height(bounds) - 1)
           /\ jobs[Len(jobs)].end_row = Height(bounds)

\* C3: when a submitted job has ended without sending, the pass does not block
\* for ever: it has ended with WorkerLost, or a step of it can still be taken.
C3_LostUnitDoesNotBlock ==
    lost # {} => (pc = "worker_lost" \/ ENABLED Next)

\* C4: a call with width <= 0 or height <= 0 submits no job and returns no
\* raster.
C4_InvalidDimensionsRejected ==
    (bounds.width <= 0 \/ bounds.height <= 0) => (jobs = << >> /\ pc # "done")

\* C5: the pass has returned only after exactly n_jobs batches, one per
\* submitted job, were received and every pixel of each of them was stored
\* at its (x, y); the loop never receives more than n_jobs batches.
C5_ReturnsAfterAllBatches ==
    /\ received <= n_jobs
    /\ pc = "done" =>
          /\ received = n_jobs
          /\ Len(jobs) = n_jobs
          /\ chan = << >> /\ queue = << >> /\ running = {}
          /\ \A i \in 1..Len(jobs) :
                LET pixels == JobResult(bounds, jobs[i])
                IN  \A k \in 1..Len(pixels) :
                      overall_result[pixels[k].x][pixels[k].y] = pixels[k].color
          /\ image = from_rgba(Width(bounds), Height(bounds),
                               Bytes(bounds, overall_result))

\* C5 witness: a pass of several jobs has returned a raster with pixels in it
C5_Witness ==
    /\ pc = "done" /\ n_jobs >= 2 /\ received = n_jobs
    /\ \E c \in Cells : writes[c[1]][c[2]] > 0

\* the raster a pass with a single job over the same bounds stores
SingleJobRaster(b) ==
    StorePixels(NewGrid(b, TRANSPARENT),
                JobResult(b, [start_row |-> StartRow(b, 1, 0), end_row |-> EndRow(b, 1, 0)]))

\* C6: the raster a pass returns is, cell for cell, the raster of a pass with
\* job count 1 over the same bounds, whatever its own job count.
C6_SameAsSingleJob ==
    pc = "done" => overall_result = SingleJobRaster(bounds)

\* C7: no cell is written by the batches of two jobs, and a pass over the same
\* dimensions as the pass before it returns the same buffer, whatever the order
\* in which the workers ran and the batches arrived in either pass.
C7_OrderIndependent ==
    /\ [](\A c \in Cells : writes[c[1]][c[2]] <= 1)
    /\ [][(pc = "recv" /\ pc' = "done"
            /\ image.width = Width(bounds) /\ image.height = Height(bounds))
          => image' = image]_vars

\* C7 witness: a second pass over the same non-empty dimensions, with several
\* jobs on several threads, is about to return
C7_Witness ==
    /\ pc = "recv" /\ received = n_jobs
    /\ n_jobs >= 2 /\ n_threads >= 2
    /\ image.width = Width(bounds) /\ image.height = Height(bounds)
    /\ image.bytes # << >>
    /\ \E c \in Cells : writes[c[1]][c[2]] = 1

\* the places of the channel that hold a pixel for cell c
InFlight(c) ==
    UNION { { << i, k >> : k \in { m \in 1..Len(chan[i]) :
                                    chan[i][m].x = c[1] /\ chan[i][m].y = c[2] } } :
            i \in 1..Len(chan) }

\* C8: every pixel sent has 0 <= x < width and 0 <= y < height, so the store
\* of the aggregation loop is never out of range, and no (x, y) is sent more
\* than once in a pass, for every width >= 0 and height >= 0.
C8_PixelsInRangeOnce ==
    /\ pc # "panicked"
    /\ \A i \in 1..Len(chan) : \A k \in 1..Len(chan[i]) :
          /\ chan[i][k].x >= 0 /\ chan[i][k].x < Width(bounds)
          /\ chan[i][k].y >= 0 /\ chan[i][k].y < Height(bounds)
    /\ \A c \in Cells : writes[c[1]][c[2]] + Cardinality(InFlight(c)) <= 1

\* C8 witness: two batches with pixels are in the channel and a third has
\* been stored
C8_Witness ==
    /\ Len(chan) >= 2 /\ chan[1] # << >> /\ chan[2] # << >>
    /\ received >= 1
    /\ \E c \in Cells : writes[c[1]][c[2]] = 1

\* C9 as stated: of two pixels that escaped at steps n1 <= n2, the first has
\* the smaller or equal shade, and the shade is within 0..255.
C9_ShadeNonDecreasing ==
    (Escaped(loop) /\ last.seen)
        => /\ loop.color.r \in 0..255
           /\ last.n <= loop.n => last.shade <= loop.color.r
           /\ loop.n <= last.n => loop.color.r <= last.shade

\* C9 as amended: of two pixels that escaped at steps n1 <= n2, the first has
\* the greater or equal shade (the shade is 255 - n), and the shade is within
\* 0..255.
C9_ShadeNonIncreasing ==
    (Escaped(loop) /\ last.seen)
        => /\ loop.color.r \in 0..255
           /\ loop.color.g = loop.color.r /\ loop.color.b = loop.color.r
           /\ last.n <= loop.n => last.shade >= loop.color.r
           /\ loop.n <= last.n => loop.color.r >= last.shade

\* C9 witness: a pixel escaped at a later step than the one before it and is
\* darker
C9_Witness ==
    /\ Escaped(loop) /\ last.seen
    /\ last.n < loop.n /\ last.shade > loop.color.r

\* the value z had before turn k of the loop
Before(k) == IF k = 1 THEN Complex(0, 0) ELSE orbit[k - 1]

\* C10: the loop takes at most MaxIterations turns, each computing z * z + c
\* from z = 0; it stops at the first turn whose z satisfies z.norm() >= 2.0
\* and reports that step n, 0 <= n < MaxIterations, as the shade 255 - n; it
\* ends black exactly when no turn satisfied it.
C10_LoopStopsAtFirstBailout ==
    /\ loop.n <= MaxIterations
    /\ Len(orbit) <= MaxIterations
    /\ \A k \in 1..Len(orbit) : orbit[k] = Iterate(Before(k), point)
    /\ \A k \in 1..(Len(orbit) - 1) : ~Bailout(orbit[k])
    /\ ~loop.done => /\ loop.n = Len(orbit)
                     /\ \A k \in 1..Len(orbit) : ~Bailout(orbit[k])
    /\ loop.done =>
          IF Len(orbit) > 0 /\ Bailout(orbit[Len(orbit)])
          THEN /\ loop.n = Len(orbit) - 1
               /\ loop.n \in 0..(MaxIterations - 1)
               /\ loop.color = from_rgb8(255 - loop.n, 255 - loop.n, 255 - loop.n)
          ELSE /\ Len(orbit) = MaxIterations
               /\ loop.color = BLACK

\* C10 witness: a loop has ended at a step after the first
C10_Witness ==
    /\ loop.done /\ loop.n \in 2..(MaxIterations - 1)
    /\ Bailout(orbit[Len(orbit)])

\* C10, the other way of ending: a loop has run all its turns and is black
C10_WitnessBounded ==
    /\ loop.done /\ Len(orbit) = MaxIterations /\ loop.color = BLACK

\* the jobs of the pass that a pool thread has taken from the queue
Started == { j \in 1..Len(jobs) : \A k \in 1..Len(queue) : queue[k] # j }

\* C11: at most n_threads jobs are executing at any moment; the jobs that are
\* not executing yet wait in the queue in the order of their submission and
\* are started in that order; the number of pool threads never changes.
C11_PoolBoundedFifo ==
    /\ [](/\ Cardinality(running) <= n_threads
          /\ running \subseteq Started
          /\ \A k \in 1..Len(queue) : queue[k] = Len(jobs) - Len(queue) + k
          /\ \A j \in Started : \A k \in 1..Len(queue) : j < queue[k])
    /\ [][/\ n_threads' = n_threads
          /\ \A j \in running' \ running :
                /\ queue # << >> /\ j = Head(queue)
                /\ Cardinality(running) < n_threads]_vars

\* C11 witness: every pool thread is busy and a submitted job waits
C11_Witness ==
    /\ n_threads >= 2 /\ Cardinality(running) = n_threads
    /\ queue # << >>

\* the jobs of the pass that have ended
Finished == Started \ running

\* the batch holds one pixel for every cell of the job's rows and no other
FullBatch(batch, job) ==
    /\ Len(batch) = Width(bounds) * Cardinality(Rows(job))
    /\ \A k \in 1..Len(batch) :
          /\ batch[k].x \in 0..(Width(bounds) - 1)
          /\ batch[k].y \in Rows(job)
    /\ \A x \in 0..(Width(bounds) - 1) : \A y \in Rows(job) :
          Cardinality({ k \in 1..Len(batch) :
                          batch[k].x = x /\ batch[k].y = y }) = 1

\* C12: every job that ends has sent exactly one batch, and the step that ends
\* a job appends to the channel one batch that holds exactly one pixel for
\* every cell of the job's rows, bounded points included, and no other pixel.
C12_OneFullBatchPerUnit ==
    /\ [](Len(chan) + received = Cardinality(Finished))
    /\ [][\A j \in running \ running' :
            /\ Len(chan') = Len(chan) + 1
            /\ SubSeq(chan', 1, Len(chan)) = chan
            /\ FullBatch(chan'[Len(chan')], jobs[j])]_vars

\* C12 witness: a batch of two or more pixels with a bounded point is in the
\* channel while another job of the pass has not ended
C12_Witness ==
    /\ chan # << >> /\ Cardinality(Finished) < Len(jobs)
    /\ Len(chan[1]) >= 2
    /\ \E k \in 1..Len(chan[1]) : chan[1][k].color = BLACK

\* C13: a pass goes from idle to the submission loop, from there to the
\* aggregation loop and from there to its return, one step at a time and never
\* backwards; the aggregation loop is entered, and a batch is received, only
\* after all n_jobs jobs have been submitted; the pass returns only from the
\* aggregation loop.
C13_PhasesInOrder ==
    /\ [][pc' # pc =>
            /\ << pc, pc' >> \in { << "idle", "dispatch" >>, << "dispatch", "recv" >>,
                                  << "recv", "done" >>, << "done", "dispatch" >> }
            /\ (pc' = "recv" => next_job' = n_jobs /\ Len(jobs') = n_jobs)
            /\ (pc' = "dispatch" => next_job' = 0 /\ jobs' = << >>)]_vars
    /\ [][received' # received /\ pc' = pc =>
            pc = "recv" /\ Len(jobs) = n_jobs]_vars
    /\ [][jobs' # jobs /\ jobs' # << >> =>
            pc = "dispatch" /\ received = 0 /\ Len(jobs') = Len(jobs) + 1]_vars
    /\ [](pc \in {"recv", "done"} => Len(jobs) = n_jobs)

\* C13 witness: a pass of several jobs has returned after receiving them all
C13_Witness ==
    /\ pc = "done" /\ n_jobs >= 2 /\ received = n_jobs
    /\ Len(jobs) = n_jobs

\* C14: when the caller and the pool threads keep running and no job fails,
\* every pass that was started returns, with every job started and ended and
\* every batch received, also when there are more jobs than pool threads.
C14_PassReturns ==
    (pc \in {"dispatch", "recv"})
        ~> (/\ pc = "done" /\ received = n_jobs /\ queue = << >>
            /\ running = {} /\ chan = << >>)

\* C14 witness: a pass with more jobs than pool threads has returned
C14_Witness ==
    /\ pc = "done" /\ n_jobs > n_threads
    /\ received = n_jobs /\ Cardinality(Finished) = n_jobs

\* C15: for every height > 0, every submitted job has height \div n_jobs rows,
\* and no job but the last one of the pass has zero rows.
C15_UnitsNotEmpty ==
    Height(bounds) > 0 =>
        \A i \in 1..Len(jobs) :
            /\ jobs[i].end_row - jobs[i].start_row = Height(bounds) \div n_jobs
            /\ (i < n_jobs => jobs[i].end_row > jobs[i].start_row)

\* C16: the bytes a pass returns are 4 for every cell, row after row: the 4
\* bytes of cell (i, j) start at offset 4 * (j * width + i) and are the red,
\* green and blue 8-bit values of overall_result[i][j] followed by 255.
C16_BytesRowMajor ==
    pc = "done" =>
        /\ image.width = Width(bounds) /\ image.height = Height(bounds)
        /\ Len(image.bytes) = Width(bounds) * Height(bounds) * 4
        /\ \A c \in Cells :
              LET at == 4 * (c[2] * Width(bounds) + c[1])
                  cell == overall_result[c[1]][c[2]]
              IN  /\ image.bytes[at + 1] = cell.r
                  /\ image.bytes[at + 2] = cell.g
                  /\ image.bytes[at + 3] = cell.b
                  /\ image.bytes[at + 4] = 255

\* C16 witness: a returned raster of several rows and columns whose first row
\* and first column differ
C16_Witness ==
    /\ pc = "done" /\ Width(bounds) >= 2 /\ Height(bounds) >= 2
    /\ \A c \in Cells : writes[c[1]][c[2]] = 1
    /\ \E x \in 1..(Width(bounds) - 1) : \E y \in 1..(Height(bounds) - 1) :
          overall_result[x][0] # overall_result[0][y]

\* the 4 bytes the returned image holds for cell c
CellBytes(c) ==
    SubSeq(image.bytes, 4 * (c[2] * Width(bounds) + c[1]) + 1,
                        4 * (c[2] * Width(bounds) + c[1]) + 4)

\* C17: in the image a pass returns, the bytes of a cell that no job wrote
\* differ from the bytes of every cell that a job wrote, whether the point of
\* that cell escaped or not.
C17_UnwrittenCellDiffers ==
    pc = "done" =>
        \A c, d \in Cells :
            (writes[c[1]][c[2]] = 0 /\ writes[d[1]][d[2]] > 0)
                => CellBytes(c) # CellBytes(d)

\* C18: when no pass is running, no job of a pass is queued or executing and
\* no batch is in a channel; a pass starts only then, with an empty channel
\* and a newly allocated raster; every job and every batch that exists during
\* a pass is therefore a job or a batch of that pass, computed for its bounds.
C18_PassesIsolated ==
    /\ [](pc \in {"idle", "done"} =>
            queue = << >> /\ running = {} /\ chan = << >>)
    /\ [][pc' = "dispatch" /\ pc # "dispatch" =>
            /\ queue = << >> /\ running = {} /\ chan = << >>
            /\ queue' = << >> /\ running' = {} /\ chan' = << >>
            /\ jobs' = << >> /\ received' = 0
            /\ overall_result' = NewGrid(bounds', TRANSPARENT)]_vars
    /\ [](/\ \A k \in 1..Len(queue) : queue[k] \in 1..Len(jobs)
          /\ running \subseteq 1..Len(jobs)
          /\ \A k \in 1..Len(chan) : \E i \in Finished :
                FullBatch(chan[k], jobs[i]))
    /\ [][bounds' # bounds \/ jobs' = << >> =>
            pc \in {"idle", "done"}]_vars

\* C18 witness: a pass that follows a pass which returned an image has a batch
\* in its channel and a job that has not ended
C18_Witness ==
    /\ pc = "recv" /\ image.bytes # << >>
    /\ chan # << >> /\ Cardinality(Finished) < Len(jobs)

\* C19: a call of threaded_fractal_calc with the bounds of the image that is
\* shown returns that image again, whatever the region of the call and the
\* region of the call that made the image.
C19_RegionHasNoEffect ==
    [][(/\ should_draw'
        /\ image.bytes # << >>
        /\ image.width = Width(window_size')
        /\ image.height = Height(window_size'))
            => image' = image]_vars

\* C19 witness: the image comes from a call that had the bounds of the call
\* before it and another region
C19_Witness ==
    /\ should_draw /\ redrawn /\ image.bytes # << >>
    /\ region # Rectangle(0, 0, 0, 0)
    /\ \E k \in 1..Len(image.bytes) : image.bytes[k] = 0

\* C20: update() recomputes the image if and only if its event is a resize, or
\* a release of the left button while draw_bounding_box is TRUE; after the
\* update draw_bounding_box is TRUE if and only if the event is a press of the
\* left button, or it was TRUE and the event is neither a release of the left
\* button nor a press of the right button; a release of the left button while
\* draw_bounding_box is FALSE changes neither region nor the image.
C20_RecomputeTriggers ==
    /\ [][/\ should_draw' <=> (\/ event'.type = "Resized"
                                \/ (Released(event', "Left") /\ draw_bounding_box))
          /\ ~should_draw' => (image' = image /\ redrawn' = redrawn)
          /\ draw_bounding_box' <=>
                (\/ Pressed(event', "Left")
                 \/ /\ draw_bounding_box
                    /\ ~Released(event', "Left")
                    /\ ~Pressed(event', "Right"))
          /\ (Released(event', "Left") /\ ~draw_bounding_box)
                => (region' = region /\ ~should_draw' /\ image' = image)
          /\ region' # region => (Released(event', "Left") /\ draw_bounding_box)]_vars
    /\ [](event.type = "None" => (~draw_bounding_box /\ ~should_draw))

\* C20 witness: a release of the left button that recomputed nothing, after a
\* press of the left button that a press of the right button cancelled: the
\* press moved start_location and region is still the initial one
C20_Witness ==
    /\ Released(event, "Left") /\ ~should_draw /\ ~draw_bounding_box
    /\ start_location # Point(0, 0)
    /\ region = Rectangle(0, 0, 0, 0)
    /\ start_location # end_location

====
